---- MODULE Spec2Model ----
(***************************************************************************)
(* Mortgage calculator: the zod validation schema and the form handlers of *)
(* FormSection, the zustand store useMortgageStore, the amortization        *)
(* formula MortgageCalculation and the CalculatorLayout view switch.        *)
(*                                                                         *)
(* Numbers are JavaScript numbers restricted to exact rationals plus the   *)
(* special values: <<n, d>> with d > 0 is n/d in lowest terms, <<1, 0>> is  *)
(* Infinity, <<-1, 0>> is -Infinity and <<0, 0>> is NaN.  Rounding is not   *)
(* modelled (the inputs are chosen so that every intermediate value is     *)
(* exact or is one of the special values), and -0 is identified with 0.    *)
(* Raw field texts are sequences of one-character strings.                 *)
(***************************************************************************)
EXTENDS Integers, Sequences, FiniteSets, TLC

\* ---------------------------------------------------------------- bounds
\* Texts the user can type in the main specification: the decimal texts of
\* 0..MaxAmount, of 600 * (0..MaxRateSteps) and of (0..MaxTermQuarters) / 4.
MaxAmount == 1
MaxRateSteps == 1
MaxTermQuarters == 1
\* Numeric texts (and their negatives) of the validation specification.
MaxValidateNum == 1
\* Requests of the calculation specification.
CalcMaxAmount == 3
CalcMaxRateSteps == 3
CalcMaxTermQuarters == 2

\* ------------------------------------------------------ program constants
PercentDivisor == 100
MonthsPerYear == 12

\* ---------------------------------------------------------------- numbers
NaN == <<0, 0>>
Infinity == <<1, 0>>
NegInfinity == <<-1, 0>>
Zero == <<0, 1>>
One == <<1, 1>>

Abs(i) == IF i < 0 THEN -i ELSE i
Sign(i) == IF i < 0 THEN -1 ELSE IF i > 0 THEN 1 ELSE 0

RECURSIVE GCD(_, _)
GCD(a, b) == IF b = 0 THEN a ELSE GCD(b, a % b)

\* The canonical form of n/d: lowest terms, d >= 0; n/0 is +-Infinity or NaN.
Norm(n, d) ==
    IF d = 0 THEN <<Sign(n), 0>>
    ELSE LET g == GCD(Abs(n), Abs(d))
         IN  <<(Sign(d) * n) \div g, Abs(d) \div g>>

Whole(i) == <<i, 1>>

isNaN(x) == x = NaN
IsFinite(x) == x[2] # 0
\* x >= 0, x > 0, x = 0 as JavaScript compares numbers: false on NaN.
Ge0(x) == x # NaN /\ x[1] >= 0
Gt0(x) == x # NaN /\ x[1] > 0
IsZero(x) == x = Zero

Neg(x) == <<-x[1], x[2]>>

Mul(a, b) ==
    IF isNaN(a) \/ isNaN(b) THEN NaN
    ELSE IF ~IsFinite(a) \/ ~IsFinite(b)
         THEN <<Sign(a[1]) * Sign(b[1]), 0>>          \* Infinity * 0 is NaN
    ELSE LET g1 == GCD(Abs(a[1]), b[2])
             g2 == GCD(Abs(b[1]), a[2])
         IN  Norm((a[1] \div g1) * (b[1] \div g2), (a[2] \div g2) * (b[2] \div g1))

Div(a, b) ==
    IF isNaN(a) \/ isNaN(b) THEN NaN
    ELSE IF ~IsFinite(b)
         THEN (IF IsFinite(a) THEN Zero ELSE NaN)     \* Infinity / Infinity is NaN
    ELSE IF b[1] = 0
         THEN <<Sign(a[1]), 0>>                       \* x / 0 is +-Infinity, 0 / 0 is NaN
    ELSE IF ~IsFinite(a) THEN <<Sign(a[1]) * Sign(b[1]), 0>>
    ELSE Mul(a, Norm(b[2], b[1]))

Add(a, b) ==
    IF isNaN(a) \/ isNaN(b) THEN NaN
    ELSE IF ~IsFinite(a) /\ ~IsFinite(b)
         THEN (IF a = b THEN a ELSE NaN)              \* Infinity - Infinity is NaN
    ELSE IF ~IsFinite(a) THEN a
    ELSE IF ~IsFinite(b) THEN b
    ELSE Norm(a[1] * b[2] + b[1] * a[2], a[2] * b[2])

Sub(a, b) == Add(a, Neg(b))

Less(a, b) == Gt0(Sub(b, a))

RECURSIVE PowInt(_, _)
PowInt(base, n) == IF n = 0 THEN One ELSE Mul(base, PowInt(base, n - 1))

\* Math.pow(base, exp) for exp >= 0 that is a whole number or Infinity (the
\* exponents the model's terms produce); base >= 0.
Pow(base, exp) ==
    IF isNaN(exp) THEN NaN
    ELSE IF IsZero(exp) THEN One                      \* also for a NaN base
    ELSE IF isNaN(base) THEN NaN
    ELSE IF exp = Infinity
         THEN (IF base = One THEN NaN
               ELSE IF Less(One, base) THEN Infinity ELSE Zero)
    ELSE IF ~IsFinite(base) THEN Infinity
    ELSE CASE exp[2] = 1 /\ exp[1] > 0 -> PowInt(base, exp[1])

\* ------------------------------------------------------------------ texts
Digits == <<"0", "1", "2", "3", "4", "5", "6", "7", "8", "9">>
IsDigit(c) == \E i \in 1..10 : Digits[i] = c
DigitValue(c) == (CHOOSE i \in 1..10 : Digits[i] = c) - 1
IsWhiteSpace(c) == c = " "
InfinityLiteral == <<"I", "n", "f", "i", "n", "i", "t", "y">>

RECURSIVE TrimStart(_)
TrimStart(s) ==
    IF s # <<>> /\ IsWhiteSpace(Head(s)) THEN TrimStart(Tail(s)) ELSE s

RECURSIVE TrimEnd(_)
TrimEnd(s) ==
    IF s # <<>> /\ IsWhiteSpace(s[Len(s)])
    THEN TrimEnd(SubSeq(s, 1, Len(s) - 1)) ELSE s

\* String.prototype.trim
trim(s) == TrimEnd(TrimStart(s))

StartsWith(s, p) == Len(s) >= Len(p) /\ SubSeq(s, 1, Len(p)) = p

RECURSIVE DigitPrefix(_)
DigitPrefix(s) ==
    IF s # <<>> /\ IsDigit(Head(s)) THEN <<Head(s)>> \o DigitPrefix(Tail(s))
    ELSE <<>>

RECURSIVE DigitsValue(_)
DigitsValue(ds) ==
    IF ds = <<>> THEN 0
    ELSE 10 * DigitsValue(SubSeq(ds, 1, Len(ds) - 1)) + DigitValue(ds[Len(ds)])

RECURSIVE Pow10(_)
Pow10(k) == IF k = 0 THEN 1 ELSE 10 * Pow10(k - 1)

\* parseFloat: skips leading white space, then reads the longest prefix that
\* is a signed decimal literal or Infinity; NaN when there is none.  (The
\* model's alphabet has no exponent marker.)
FractionDigits(rest) ==
    IF rest # <<>> /\ Head(rest) = "." THEN DigitPrefix(Tail(rest)) ELSE <<>>

DecimalValue(ip, fp) ==
    IF ip = <<>> /\ fp = <<>> THEN NaN
    ELSE Norm(DigitsValue(ip \o fp), Pow10(Len(fp)))

DecimalLiteral(body, ip) ==
    DecimalValue(ip, FractionDigits(SubSeq(body, Len(ip) + 1, Len(body))))

UnsignedLiteral(body) ==
    IF StartsWith(body, InfinityLiteral) THEN Infinity
    ELSE DecimalLiteral(body, DigitPrefix(body))

SignedLiteral(s) ==
    IF s # <<>> /\ Head(s) = "-" THEN Neg(UnsignedLiteral(Tail(s)))
    ELSE IF s # <<>> /\ Head(s) = "+" THEN UnsignedLiteral(Tail(s))
    ELSE UnsignedLiteral(s)

parseFloat(val) == SignedLiteral(TrimStart(val))

\* Number(val) of a string that trims to the empty string is 0.
ToNumber(val) == IF trim(val) = <<>> THEN Zero ELSE parseFloat(val)

\* ----------------------------------------------------------- zod schema
Null == [absent |-> TRUE]          \* null / undefined object
NullType == "<null>"               \* mortgageType: null (no radio selected)

NumericFields == {"mortgageAmount", "interestRate", "mortgageTerm"}
FieldOrder == <<"mortgageAmount", "interestRate", "mortgageTerm", "mortgageType">>
FieldNames == {FieldOrder[i] : i \in 1..Len(FieldOrder)}

RequiredMessage(name) ==
    CASE name = "mortgageAmount" -> "Mortgage Amount is required"
      [] name = "interestRate" -> "Interest Rate is required"
      [] name = "mortgageTerm" -> "Mortgage Term is required"
      [] name = "mortgageType" -> "Mortgage Type is required"

InvalidMessage(name) ==
    CASE name = "mortgageAmount" -> "Mortgage Amount must be a positive number"
      [] name = "interestRate" -> "Interest Rate must be a positive number"
      [] name = "mortgageTerm" -> "Mortgage Term must be a positive number"

\* The second refinement of a numeric field: !isNaN(val) && val >= 0.
NumberCheck(val) == ~isNaN(val) /\ Ge0(val)

\* z.string().refine(trim() !== "").transform(parseFloat).refine(NumberCheck):
\* a failed first refinement leaves the value dirty, the transform is skipped
\* and the second refinement sees the raw string (coerced by isNaN and >=).
NumberRefinement(name, val) ==
    IF NumberCheck(val) THEN <<>> ELSE <<InvalidMessage(name)>>

NumericField(name, val) ==
    IF trim(val) # <<>>
    THEN [issues |-> NumberRefinement(name, parseFloat(val)), value |-> parseFloat(val)]
    ELSE [issues |-> <<RequiredMessage(name)>> \o NumberRefinement(name, ToNumber(val)),
          value |-> val]

\* Variant: .nullable() without the refinement, so null is accepted.
MortgageTypeFieldMutNullable(name, val) == [issues |-> <<>>, value |-> val]

\* z.string({required_error}).nullable().refine(val !== null)
MortgageTypeField(name, val) ==
    [issues |-> IF val # NullType THEN <<>> ELSE <<RequiredMessage(name)>>,
     value |-> val]

FieldSchema(name, val) ==
    IF name \in NumericFields THEN NumericField(name, val)
    ELSE MortgageTypeField(name, val)

\* The issues of one key, each with its path.
FieldIssues(name, messages) ==
    [k \in 1..Len(messages) |-> [path |-> name, message |-> messages[k]]]

\* Variant: parsing stops at the first key that has an issue.
RECURSIVE ObjectIssuesMutShortCircuit(_, _)
ObjectIssuesMutShortCircuit(values, i) ==
    IF i > Len(FieldOrder) THEN <<>>
    ELSE IF FieldSchema(FieldOrder[i], values[FieldOrder[i]]).issues # <<>>
    THEN FieldIssues(FieldOrder[i], FieldSchema(FieldOrder[i], values[FieldOrder[i]]).issues)
    ELSE ObjectIssuesMutShortCircuit(values, i + 1)

\* z.object: every key is parsed, in order, and the issues are collected.
RECURSIVE ObjectIssues(_, _)
ObjectIssues(values, i) ==
    IF i > Len(FieldOrder) THEN <<>>
    ELSE FieldIssues(FieldOrder[i], FieldSchema(FieldOrder[i], values[FieldOrder[i]]).issues)
         \o ObjectIssues(values, i + 1)

ParsedData(values) ==
    [name \in FieldNames |-> FieldSchema(name, values[name]).value]

SafeParseResult(values, issues) ==
    IF issues = <<>>
    THEN [success |-> TRUE, issues |-> issues, data |-> ParsedData(values)]
    ELSE [success |-> FALSE, issues |-> issues, data |-> Null]

schema(values) == SafeParseResult(values, ObjectIssues(values, 1))

\* The resolver's error map: one error per failing path, the first issue
\* reported for the path.
FirstIssue(issues, name) ==
    CHOOSE k \in 1..Len(issues) :
        /\ issues[k].path = name
        /\ \A j \in 1..(k - 1) : issues[j].path # name

toFieldErrors(issues) ==
    [name \in {issues[k].path : k \in 1..Len(issues)} |->
        issues[FirstIssue(issues, name)].message]

ResolverResult(parsed) ==
    IF parsed.success
    THEN [values |-> parsed.data, errors |-> [name \in {} |-> ""]]
    ELSE [values |-> Null, errors |-> toFieldErrors(parsed.issues)]

\* zodResolver(schema): the parsed data and no errors, or no data and errors.
zodResolver(values) == ResolverResult(schema(values))

\* ------------------------------------------------------------------ state
VARIABLES
    values,              \* the form's field values (react-hook-form)
    isSubmitSuccessful,  \* formState.isSubmitSuccessful
    store,               \* useMortgageStore: calculationData, showResult
    pc,                  \* position inside the event being handled, or "idle"
    data,                \* onSubmit's argument while it runs, else Null
    errors,              \* onError's argument while it runs, else empty
    rendered,            \* what CalculatorLayout shows next to the form
    entry                \* the store as it was when the current event began

vars == <<values, isSubmitSuccessful, store, pc, data, errors, rendered, entry>>

NoErrors == [name \in {} |-> ""]

defaultValues ==
    [mortgageAmount |-> <<>>, interestRate |-> <<>>, mortgageTerm |-> <<>>,
     mortgageType |-> NullType]

MortgageTypes == {"Repayment", "Interest Only"}

\* ------------------------------------------------------------ zustand store
InitStore == [calculationData |-> Null, showResult |-> FALSE]

\* zustand's set(partial): the partial state is merged into the store.
set(state, partial) ==
    [k \in DOMAIN state |-> IF k \in DOMAIN partial THEN partial[k] ELSE state[k]]

\* Variant: a stored request is kept instead of being replaced.
setCalculationDataMutKeepFirst(state, d) ==
    IF state.calculationData = Null THEN set(state, [calculationData |-> d]) ELSE state

setCalculationData(state, d) == set(state, [calculationData |-> d])

setShowResult(state, show) == set(state, [showResult |-> show])

\* Variant: only calculationData is reset, showResult is left as it is.
clearCalculationDataMutDataOnly(state) == set(state, [calculationData |-> Null])

clearCalculationData(state) ==
    set(state, [calculationData |-> Null, showResult |-> FALSE])

calculationData == store.calculationData
showResult == store.showResult

\* ------------------------------------------------------------- calculation
\* Variant: no usable default when no request is stored.
MortgageCalculationMutNullNaN ==
    IF calculationData = Null
    THEN [monthlyPayment |-> NaN, totalRepayment |-> NaN]
    ELSE [monthlyPayment |-> Zero, totalRepayment |-> Zero]

\* Variant: totalRepayment multiplies by the years, not by the months.
MortgageCalculationMutYears ==
    IF calculationData = Null
    THEN [monthlyPayment |-> Zero, totalRepayment |-> Zero]
    ELSE LET monthlyRate == Div(Div(calculationData.interestRate, Whole(PercentDivisor)),
                                Whole(MonthsPerYear))
             totalMonths == Mul(calculationData.mortgageTerm, Whole(MonthsPerYear))
             monthlyPayment ==
                 Div(Mul(calculationData.mortgageAmount,
                         Mul(monthlyRate, Pow(Add(One, monthlyRate), totalMonths))),
                     Sub(Pow(Add(One, monthlyRate), totalMonths), One))
         IN  [monthlyPayment |-> monthlyPayment,
              totalRepayment |-> Mul(monthlyPayment, calculationData.mortgageTerm)]

MortgageCalculation ==
    IF calculationData = Null
    THEN [monthlyPayment |-> Zero, totalRepayment |-> Zero]
    ELSE LET mortgageAmount == calculationData.mortgageAmount
             interestRate == calculationData.interestRate
             mortgageTerm == calculationData.mortgageTerm
             monthlyRate == Div(Div(interestRate, Whole(PercentDivisor)),
                                Whole(MonthsPerYear))
             totalMonths == Mul(mortgageTerm, Whole(MonthsPerYear))
             monthlyPayment ==
                 Div(Mul(mortgageAmount,
                         Mul(monthlyRate, Pow(Add(One, monthlyRate), totalMonths))),
                     Sub(Pow(Add(One, monthlyRate), totalMonths), One))
             totalRepayment == Mul(monthlyPayment, totalMonths)
         IN  [monthlyPayment |-> monthlyPayment, totalRepayment |-> totalRepayment]

\* ResultSection: the figures it renders are MortgageCalculation()'s.
ResultSection ==
    [view |-> "ResultSection",
     monthlyPayment |-> MortgageCalculation.monthlyPayment,
     totalRepayment |-> MortgageCalculation.totalRepayment]

EmptySection == [view |-> "CalculationSection"]

\* ------------------------------------------------------------ input texts
RECURSIVE NumberText(_)
NumberText(k) ==
    IF k < 10 THEN <<Digits[k + 1]>>
    ELSE NumberText(k \div 10) \o <<Digits[(k % 10) + 1]>>

\* The decimal text of k/4.
QuarterText(k) ==
    NumberText(k \div 4) \o
    (CASE k % 4 = 0 -> <<>>
       [] k % 4 = 1 -> <<".", "2", "5">>
       [] k % 4 = 2 -> <<".", "5">>
       [] k % 4 = 3 -> <<".", "7", "5">>)

AmountText(k) == NumberText(k)
RateText(k) == NumberText(600 * k)

TypedTexts(name) ==
    {<<>>, InfinityLiteral} \cup
    (CASE name = "mortgageAmount" -> {AmountText(k) : k \in 0..MaxAmount}
       [] name = "interestRate" -> {RateText(k) : k \in 0..MaxRateSteps}
       [] name = "mortgageTerm" -> {QuarterText(k) : k \in 0..MaxTermQuarters})

ValidateTexts ==
    {<<>>, <<" ">>, <<" ", " ">>, <<"x">>, <<"1", "x">>, <<" ", "1", " ">>, <<".">>,
     InfinityLiteral, <<"-">> \o InfinityLiteral}
    \cup {NumberText(k) : k \in 0..MaxValidateNum}
    \cup {<<"-">> \o NumberText(k) : k \in 0..MaxValidateNum}
    \cup {QuarterText(k) : k \in 0..MaxValidateNum}

\* ---------------------------------------------------------------- actions
Init ==
    /\ values = defaultValues
    /\ isSubmitSuccessful = FALSE
    /\ store = InitStore
    /\ pc = "idle"
    /\ data = Null
    /\ errors = NoErrors
    /\ rendered = EmptySection
    /\ entry = InitStore

\* The user edits a text input or picks a radio button (register's onChange).
onChange ==
    /\ pc = "idle"
    /\ \E name \in FieldNames :
         \E text \in (IF name \in NumericFields THEN TypedTexts(name) ELSE MortgageTypes) :
            values' = [values EXCEPT ![name] = text]
    /\ UNCHANGED <<isSubmitSuccessful, store, pc, data, errors, rendered, entry>>

\* Variant: onSubmit is called whatever the resolver reports.
handleSubmitMutAlwaysSubmit ==
    /\ pc = "idle"
    /\ pc' = "onSubmit"
    /\ data' = ParsedData(values)
    /\ errors' = NoErrors
    /\ UNCHANGED <<values, isSubmitSuccessful, store, rendered, entry>>

\* handleSubmit(onSubmit, onError): the resolver decides which one is called.
handleSubmit ==
    /\ pc = "idle"
    /\ \E result \in {zodResolver(values)} :
           IF DOMAIN result.errors = {}
           THEN /\ pc' = "onSubmit"
                /\ data' = result.values
                /\ errors' = NoErrors
           ELSE /\ pc' = "onError"
                /\ data' = Null
                /\ errors' = result.errors
    /\ UNCHANGED <<values, isSubmitSuccessful, store, rendered, entry>>

\* onSubmit, first store write: setCalculationData(data).
onSubmit_setCalculationData ==
    /\ pc = "onSubmit"
    /\ store' = setCalculationData(store, data)
    /\ pc' = "onSubmit_setShowResult"
    /\ UNCHANGED <<values, isSubmitSuccessful, data, errors, rendered, entry>>

\* onSubmit, second store write: setShowResult(true); handleSubmit then marks
\* the submission successful.
onSubmit_setShowResult ==
    /\ pc = "onSubmit_setShowResult"
    /\ store' = setShowResult(store, TRUE)
    /\ isSubmitSuccessful' = TRUE
    /\ pc' = "useEffect"
    /\ UNCHANGED <<values, data, errors, rendered, entry>>

\* Variant: the effect runs the whole ClearAll instead of the form's reset().
useEffect_resetMutClears ==
    /\ pc = "useEffect"
    /\ isSubmitSuccessful
    /\ store' = clearCalculationData(store)
    /\ values' = defaultValues
    /\ isSubmitSuccessful' = FALSE
    /\ data' = Null
    /\ pc' = "render"
    /\ UNCHANGED <<errors, rendered, entry>>

\* useEffect: after a successful submission reset() restores the form.
useEffect_reset ==
    /\ pc = "useEffect"
    /\ isSubmitSuccessful
    /\ values' = defaultValues
    /\ isSubmitSuccessful' = FALSE
    /\ data' = Null
    /\ pc' = "render"
    /\ UNCHANGED <<store, errors, rendered, entry>>

\* onError logs the errors; nothing else.
onError ==
    /\ pc = "onError"
    /\ errors' = NoErrors
    /\ pc' = "render"
    /\ UNCHANGED <<values, isSubmitSuccessful, store, data, rendered, entry>>

\* onReset (ClearAll), first store write: clearCalculationData().
onReset_clearCalculationData ==
    /\ pc = "idle"
    /\ store' = clearCalculationData(store)
    /\ pc' = "onReset_setShowResult"
    /\ UNCHANGED <<values, isSubmitSuccessful, data, errors, rendered, entry>>

\* Variant: onReset shows the result instead of hiding it.
onReset_setShowResultMutTrue ==
    /\ pc = "onReset_setShowResult"
    /\ store' = setShowResult(store, TRUE)
    /\ pc' = "onReset_reset"
    /\ UNCHANGED <<values, isSubmitSuccessful, data, errors, rendered, entry>>

\* onReset, second store write: setShowResult(false).
onReset_setShowResult ==
    /\ pc = "onReset_setShowResult"
    /\ store' = setShowResult(store, FALSE)
    /\ pc' = "onReset_reset"
    /\ UNCHANGED <<values, isSubmitSuccessful, data, errors, rendered, entry>>

\* onReset, last statement: reset() restores the form.
onReset_reset ==
    /\ pc = "onReset_reset"
    /\ values' = defaultValues
    /\ isSubmitSuccessful' = FALSE
    /\ pc' = "render"
    /\ UNCHANGED <<store, data, errors, rendered, entry>>

\* Variant: a result already on screen is kept instead of being recomputed.
CalculatorLayoutMutCached ==
    /\ pc = "render"
    /\ rendered' = IF ~showResult THEN EmptySection
                   ELSE IF rendered.view = "ResultSection" THEN rendered
                   ELSE ResultSection
    /\ pc' = "idle"
    /\ entry' = store
    /\ UNCHANGED <<values, isSubmitSuccessful, store, data, errors>>

\* CalculatorLayout re-renders once the event is over: ResultSection when
\* showResult, else the empty CalculationSection.
CalculatorLayout ==
    /\ pc = "render"
    /\ rendered' = IF showResult THEN ResultSection ELSE EmptySection
    /\ pc' = "idle"
    /\ entry' = store
    /\ UNCHANGED <<values, isSubmitSuccessful, store, data, errors>>

Next ==
    \/ onChange
    \/ handleSubmit
    \/ onSubmit_setCalculationData
    \/ onSubmit_setShowResult
    \/ useEffect_reset
    \/ onError
    \/ onReset_clearCalculationData
    \/ onReset_setShowResult
    \/ onReset_reset
    \/ CalculatorLayout

Spec == Init /\ [][Next]_vars

\* ------------------------------------------- validation on its own inputs
\* Any form the user can have filled in, about to be submitted.
InitValidate ==
    /\ values \in [mortgageAmount : ValidateTexts, interestRate : ValidateTexts,
                   mortgageTerm : ValidateTexts,
                   mortgageType : MortgageTypes \cup {NullType}]
    /\ isSubmitSuccessful = FALSE
    /\ store = InitStore
    /\ pc = "idle"
    /\ data = Null
    /\ errors = NoErrors
    /\ rendered = EmptySection
    /\ entry = InitStore

\* The submission runs to the end of its handler and effect.
NextValidate ==
    \/ handleSubmit
    \/ onSubmit_setCalculationData
    \/ onSubmit_setShowResult
    \/ useEffect_reset
    \/ onError

SpecValidate == InitValidate /\ [][NextValidate]_vars

\* ------------------------------------------ calculation on its own inputs
CalcNumbers(max, step) == {Norm(k, step) : k \in 0..max} \cup {Infinity}

CalcRequests ==
    [mortgageAmount : CalcNumbers(CalcMaxAmount, 1),
     interestRate : {Mul(Whole(600), x) : x \in CalcNumbers(CalcMaxRateSteps, 1)},
     mortgageTerm : CalcNumbers(CalcMaxTermQuarters, 4),
     mortgageType : MortgageTypes]

\* A first submission of the request has just been stored and shown, and the
\* layout is about to re-render.
InitCalc ==
    /\ values = defaultValues
    /\ isSubmitSuccessful = FALSE
    /\ store \in [calculationData : CalcRequests, showResult : {TRUE}]
    /\ pc = "render"
    /\ data = Null
    /\ errors = NoErrors
    /\ rendered = EmptySection
    /\ entry = InitStore

NextCalc == CalculatorLayout

SpecCalc == InitCalc /\ [][NextCalc]_vars

\* ------------------------------------------------------------------ claims
OnSubmitPositions == {"onSubmit", "onSubmit_setShowResult", "useEffect"}

\* C1 as stated: in every reachable state, the states between the store
\* writes of one handler included, the result is visible exactly when a
\* request is stored.
C1_VisibleIffStoredEverywhere == showResult <=> (calculationData # Null)

\* C1 as amended: the result is visible exactly when a request is stored in
\* every state except between onSubmit's two store writes, where the request
\* is already stored and showResult still has its value from before the
\* submission; a visible result always has a stored request.
C1_VisibleIffStoredBetweenHandlers ==
    /\ pc # "onSubmit_setShowResult" => (showResult <=> (calculationData # Null))
    /\ pc = "onSubmit_setShowResult" =>
          (calculationData = data /\ data # Null /\ showResult = entry.showResult)
    /\ showResult => calculationData # Null

\* A ClearAll of a shown result, between onReset's two store writes.
C1_Witness ==
    /\ pc = "onReset_setShowResult"
    /\ entry.showResult
    /\ entry.calculationData # Null

\* C2: a submission of a well-formed request can start in every idle state
\* and ends with calculationData equal to exactly the request the resolver
\* produced from the form, and showResult true, whatever was stored before.
C2_SubmitStoresRequest ==
    /\ pc = "useEffect" =>
          /\ data # Null
          /\ data = zodResolver(values).values
          /\ calculationData = data
          /\ showResult = TRUE

\* A different request was stored and shown when the submission began.
C2_Witness ==
    /\ pc = "useEffect"
    /\ entry.showResult
    /\ entry.calculationData # Null
    /\ entry.calculationData # data
    /\ calculationData = data

\* The store after both store writes of onReset, started from state.
AfterClear(state) == setShowResult(clearCalculationData(state), FALSE)

\* C3: ClearAll can start in every idle state and ends with calculationData
\* null and showResult false; clearing twice gives what clearing once gives,
\* and clearing the initial store leaves it unchanged.
C3_ClearIdempotent ==
    /\ pc = "idle" => ENABLED onReset_clearCalculationData
    /\ pc = "onReset_reset" =>
          /\ calculationData = Null
          /\ showResult = FALSE
          /\ store = AfterClear(entry)
          /\ AfterClear(store) = store
    /\ AfterClear(InitStore) = InitStore

\* ClearAll of an already clear store has made both its store writes.
C3_Witness ==
    /\ pc = "onReset_reset"
    /\ entry = InitStore
    /\ store = InitStore

\* C4: a submission that fails validation writes nothing to the store, and
\* the store is written by a submission only when the form validates.
C4_FailedSubmitKeepsStore ==
    [][/\ (pc = "onError" \/ pc' = "onError") => store' = store
       /\ (pc \in OnSubmitPositions /\ store' # store) =>
             DOMAIN zodResolver(values).errors = {}]_vars

\* A failed submission while a result is stored and shown.
C4_Witness ==
    /\ pc = "onError"
    /\ DOMAIN errors # {}
    /\ showResult
    /\ calculationData # Null
    /\ store = entry

\* What the resolver must answer for a form, field by field: the rule each
\* field has to satisfy on its own.
FieldRuleError(name, val) ==
    IF name \in NumericFields
    THEN (IF trim(val) = <<>> THEN RequiredMessage(name)
          ELSE IF isNaN(parseFloat(val)) \/ ~Ge0(parseFloat(val)) THEN InvalidMessage(name)
          ELSE "")
    ELSE (IF val = NullType THEN RequiredMessage(name) ELSE "")

FailingFields(form) == {name \in FieldNames : FieldRuleError(name, form[name]) # ""}

IsFullRequest(d, form) ==
    /\ DOMAIN d = FieldNames
    /\ \A name \in NumericFields : d[name] = parseFloat(form[name]) /\ ~isNaN(d[name])
    /\ d.mortgageType # NullType
    /\ d.mortgageType = form.mortgageType

\* C5: validation is total and exclusive: for every form the resolver gives
\* either a request with all four fields (the numeric ones parsed, the type
\* not null) and no errors, or no request and a non-empty error map; and
\* handleSubmit calls onSubmit with the former or onError with the latter.
C5_ValidationTotalExclusive ==
    /\ \E result \in {zodResolver(values)} :
          /\ (result.values # Null) <=> (DOMAIN result.errors = {})
          /\ result.values # Null => IsFullRequest(result.values, values)
    /\ pc = "onSubmit" => (IsFullRequest(data, values) /\ DOMAIN errors = {})
    /\ pc = "onError" => (data = Null /\ DOMAIN errors # {})

\* A form whose fields are whitespace, non-numeric, negative and unselected
\* has been rejected.
C5_Witness ==
    /\ pc = "onError"
    /\ values.mortgageAmount = <<" ">>
    /\ values.interestRate = <<"x">>
    /\ values.mortgageTerm = <<"-", "1">>
    /\ values.mortgageType = NullType
    /\ DOMAIN errors = FieldNames

\* C6: every numeric field of a request that passed validation, and so of
\* every stored request, is a finite number >= 0.
C6_StoredRequestFinite ==
    /\ pc \in OnSubmitPositions =>
          \A name \in NumericFields : IsFinite(data[name]) /\ Ge0(data[name])
    /\ calculationData # Null =>
          \A name \in NumericFields :
             IsFinite(calculationData[name]) /\ Ge0(calculationData[name])

\* C7: the error map has exactly the fields that break their own rule, each
\* with the one message of the rule it breaks (required before invalid),
\* whatever the other fields hold.
C7_ErrorsIndependentAdditive ==
    /\ \E result \in {zodResolver(values)} :
          /\ DOMAIN result.errors = FailingFields(values)
          /\ \A name \in DOMAIN result.errors :
                result.errors[name] = FieldRuleError(name, values[name])
    /\ pc = "onError" =>
          /\ DOMAIN errors = FailingFields(values)
          /\ \A name \in DOMAIN errors : errors[name] = FieldRuleError(name, values[name])

\* Only the amount is blank, the other three fields are valid: one error, on
\* the amount, saying it is required.
C7_Witness ==
    /\ pc = "onError"
    /\ values.mortgageAmount = <<>>
    /\ values.interestRate = <<"1">>
    /\ values.mortgageTerm = <<"0", ".", "2", "5">>
    /\ values.mortgageType = "Repayment"
    /\ DOMAIN errors = {"mortgageAmount"}
    /\ errors.mortgageAmount = "Mortgage Amount is required"

ZeroResult == [monthlyPayment |-> Zero, totalRepayment |-> Zero]

\* C8: whenever no request is stored, the calculation returns monthlyPayment
\* 0 and totalRepayment 0.
C8_NullRequestGivesZero == calculationData = Null => MortgageCalculation = ZeroResult

\* Directly after ClearAll's store writes on a shown result.
C8_Witness ==
    /\ pc = "onReset_reset"
    /\ entry.calculationData # Null
    /\ calculationData = Null
    /\ MortgageCalculation = ZeroResult

Shown == pc = "idle" /\ rendered.view = "ResultSection"

\* monthlyPayment * termYears * 12
PaymentTimesTerm ==
    Mul(Mul(rendered.monthlyPayment, calculationData.mortgageTerm), Whole(MonthsPerYear))

C10_ZeroRate ==
    (/\ Shown
     /\ IsFinite(calculationData.mortgageAmount)
     /\ IsZero(calculationData.interestRate)
     /\ IsFinite(calculationData.mortgageTerm)
     /\ Gt0(calculationData.mortgageTerm))
    => /\ rendered.monthlyPayment =
             Div(calculationData.mortgageAmount,
                 Mul(calculationData.mortgageTerm, Whole(MonthsPerYear)))
       /\ rendered.totalRepayment = calculationData.mortgageAmount

\* C11: once an event is over, what is read from the store and shown is the
\* calculation of the request stored now, the most recent one submitted,
\* whatever was submitted, shown or cleared before; and nothing is shown when
\* no result is visible.  (NaN results are compared as values.)
C11_ShownResultIsOfStoredRequest ==
    pc = "idle" =>
       /\ showResult =>
             /\ rendered.view = "ResultSection"
             /\ rendered.monthlyPayment = MortgageCalculation.monthlyPayment
             /\ rendered.totalRepayment = MortgageCalculation.totalRepayment
       /\ ~showResult => rendered = EmptySection

\* Principal 1 at 600% over a quarter of a year is stored and its result,
\* 27/38 a month and 81/38 in total, is on screen.
C11_Witness ==
    /\ pc = "idle"
    /\ showResult
    /\ calculationData.mortgageAmount = One
    /\ calculationData.interestRate = Whole(600)
    /\ calculationData.mortgageTerm = Norm(1, 4)
    /\ rendered.view = "ResultSection"
    /\ rendered.monthlyPayment = Norm(27, 38)
    /\ rendered.totalRepayment = Norm(81, 38)

\* C12: showResult goes from false to true only in onSubmit's
\* setShowResult(true), which runs only for a form that validated and whose
\* request has just been stored; no ClearAll, failed submission, form reset,
\* edit or re-render makes the result visible, and the form reset that
\* follows a successful submission leaves the store unchanged.
C12_ShownOnlyBySuccessfulSubmit ==
    [][/\ (~showResult /\ showResult') =>
             /\ pc = "onSubmit_setShowResult"
             /\ pc' = "useEffect"
             /\ DOMAIN zodResolver(values).errors = {}
             /\ calculationData = zodResolver(values).values
             /\ calculationData' = calculationData
       /\ (pc \in {"useEffect", "render", "onError", "onReset_reset"}) => store' = store
       /\ (pc = "idle" /\ pc' = "idle") => store' = store]_vars

\* The form has been reset after a first successful submission: the fields
\* are back to their defaults, the request is stored and the result visible.
C12_Witness ==
    /\ pc = "render"
    /\ ~entry.showResult
    /\ showResult
    /\ calculationData # Null
    /\ values = defaultValues
    /\ ~isSubmitSuccessful

WellDefinedNonNegative(x) == IsFinite(x) /\ Ge0(x)

\* C13: for every request whose three numeric fields are finite and >= 0
\* (term 0 and principal 0 included) the figures shown, monthlyPayment and
\* totalRepayment, are well-defined non-negative numbers: no division by
\* zero, no NaN, no Infinity.
C13_FiguresWellDefined ==
    (/\ Shown
     /\ \A name \in NumericFields : WellDefinedNonNegative(calculationData[name]))
    => /\ WellDefinedNonNegative(rendered.monthlyPayment)
       /\ WellDefinedNonNegative(rendered.totalRepayment)

====
